---- MODULE Spec2Model ----
(***************************************************************************)
(* Querra: the content-acquisition pipeline of the research assistant.     *)
(*                                                                         *)
(*   src/utils/search.py     GoogleSearch.search (paginated search)        *)
(*   src/utils/extractor.py  ContentExtractor.extract / clean_content      *)
(*   src/utils/ai_processor.py  GeminiProcessor (prompt, report)           *)
(*   src/app.py              the Streamlit script (one run per rerun)      *)
(*                                                                         *)
(* Page texts are run-length encoded: a text is a sequence of runs         *)
(* [c |-> character, n |-> repetitions] in which neighbouring runs carry   *)
(* different characters, so that texts longer than the 50,000-character    *)
(* limit of clean_content are ordinary values.  URLs, titles, queries and  *)
(* reports are plain strings.  What the script does once the report is in  *)
(* session_state (saving the row, rendering, export) changes none of the   *)
(* state modelled here and is left out.                                    *)
(***************************************************************************)
EXTENDS Integers, Sequences, FiniteSets, TLC

VARIABLES
    search,         \* activation of GoogleSearch.search: its locals and its call log
    extraction,     \* activation of ContentExtractor.extract: result and network log
    web,            \* what each URL's host does when it is fetched
    nz_input,       \* argument of the last clean_content call
    nz_output,      \* value the last clean_content call returned
    nz_depth,       \* 0: not called, 1: called on a fresh text, 2: called on its own output
    session,        \* st.session_state
    checked,        \* the ticked "result_<idx>" checkboxes (widget state)
    contents,       \* the list this run of the script handed to generate_report
    prompt_sources  \* the "Source i" blocks of the prompt prepared from it

vars == <<search, extraction, web, nz_input, nz_output, nz_depth,
          session, checked, contents, prompt_sources>>

-----------------------------------------------------------------------------
(* Bounds of the model *)

\* largest max_results a search is called with
MaxResultsBound == 25
\* most runs in a text given to clean_content
MaxRuns == 3

-----------------------------------------------------------------------------
(* Texts *)

Whitespace == {" ", "\n", "\t"}

IsSpace(c) == c \in Whitespace

Run(c, n) == [c |-> c, n |-> n]

RECURSIVE TextLen(_)
TextLen(t) == IF t = <<>> THEN 0 ELSE Head(t).n + TextLen(Tail(t))

\* t followed by run r, keeping neighbouring runs distinct
Snoc(t, r) ==
    IF r.n = 0 THEN t
    ELSE IF t # <<>> /\ t[Len(t)].c = r.c
         THEN [t EXCEPT ![Len(t)] = Run(r.c, @.n + r.n)]
         ELSE Append(t, r)

RECURSIVE Concat(_, _)
Concat(a, b) == IF b = <<>> THEN a ELSE Concat(Snoc(a, Head(b)), Tail(b))

\* str.split(): the maximal whitespace-free pieces, in order
RECURSIVE SplitFrom(_, _, _, _)
SplitFrom(t, i, cur, acc) ==
    LET flushed == IF cur = <<>> THEN acc ELSE Append(acc, cur) IN
    IF i > Len(t) THEN flushed
    ELSE IF IsSpace(t[i].c) THEN SplitFrom(t, i + 1, <<>>, flushed)
         ELSE SplitFrom(t, i + 1, Snoc(cur, t[i]), acc)

Split(t) == SplitFrom(t, 1, <<>>, <<>>)

\* sep.join(parts)
RECURSIVE Join(_, _)
Join(sep, parts) ==
    IF parts = <<>> THEN <<>>
    ELSE IF Len(parts) = 1 THEN parts[1]
         ELSE Concat(Concat(parts[1], sep), Join(sep, Tail(parts)))

\* t[:k]
RECURSIVE Prefix(_, _)
Prefix(t, k) ==
    IF k <= 0 \/ t = <<>> THEN <<>>
    ELSE IF Head(t).n <= k
         THEN Concat(<<Head(t)>>, Prefix(Tail(t), k - Head(t).n))
         ELSE <<Run(Head(t).c, k)>>

\* str.replace(old, new) for single characters
RECURSIVE Replace(_, _, _)
Replace(t, old, new) ==
    IF t = <<>> THEN <<>>
    ELSE Concat(<<Run(IF Head(t).c = old THEN new ELSE Head(t).c, Head(t).n)>>,
                Replace(Tail(t), old, new))

RECURSIVE LStrip(_)
LStrip(t) == IF t # <<>> /\ IsSpace(Head(t).c) THEN LStrip(Tail(t)) ELSE t

RECURSIVE RStrip(_)
RStrip(t) ==
    IF t # <<>> /\ IsSpace(t[Len(t)].c) THEN RStrip(SubSeq(t, 1, Len(t) - 1)) ELSE t

\* str.strip()
Strip(t) == RStrip(LStrip(t))

Space == <<Run(" ", 1)>>

-----------------------------------------------------------------------------
(* ContentExtractor.clean_content *)

ContentLimit == 50000

CollapseWhitespace(content) == Join(Space, Split(content))

NormalizeBreaks(content) == Replace(Replace(content, "\n", " "), "\t", " ")

LimitLength(content) == Prefix(content, ContentLimit)

clean_content(content) ==
    IF content = <<>> THEN <<>>
    ELSE LimitLength(NormalizeBreaks(CollapseWhitespace(content)))

-----------------------------------------------------------------------------
(* Inputs of the normalizer *)

Chars == {"a", " ", "\n", "\t"}

RunLengths == {1, 2, ContentLimit - 1, ContentLimit}

Runs == {Run(c, n) : c \in Chars, n \in RunLengths}

RECURSIVE TextsUpTo(_)
TextsUpTo(k) ==
    IF k = 0 THEN {<<>>}
    ELSE LET shorter == TextsUpTo(k - 1) IN
         shorter \cup {Append(t, r) : t \in {s \in shorter : Len(s) = k - 1},
                                      r \in Runs}

IsCanonical(t) == \A i \in 1..(Len(t) - 1) : t[i].c # t[i + 1].c

Texts == {t \in TextsUpTo(MaxRuns) : IsCanonical(t)}

-----------------------------------------------------------------------------
(* GoogleSearch.search *)

PageSize == 10

Min(a, b) == IF a <= b THEN a ELSE b

\* dict.get(key, default)
Get(d, key, default) == IF key \in DOMAIN d THEN d[key] ELSE default

SearchResult(item) ==
    [title   |-> Get(item, "title", ""),
     url     |-> Get(item, "link", ""),
     snippet |-> Get(item, "snippet", "")]

ParseItems(items) == [i \in 1..Len(items) |-> SearchResult(items[i])]

IdleSearch ==
    [max_results |-> 0, num |-> 0, start_index |-> 0, results |-> <<>>,
     requests |-> <<>>, received |-> <<>>, pc |-> "idle", raised |-> FALSE]

\* entry of search(): params built, results = [], the range's first value taken
SearchBegin(max_results) ==
    [max_results |-> max_results,
     num         |-> Min(max_results, PageSize),
     start_index |-> 1,
     results     |-> <<>>,
     requests    |-> <<>>,
     received    |-> <<>>,
     pc          |-> IF 1 < max_results + 1 THEN "loop" ELSE "returned",
     raised      |-> FALSE]

\* the slice left out: everything collected is returned
TruncateOmitted(results, max_results) == results

\* results[:max_results]
Truncate(results, max_results) == SubSeq(results, 1, Min(Len(results), max_results))

\* range(1, max_results + 2, 10): one offset too many when max_results is a
\* multiple of the page size
NextStartInclusive(f) ==
    LET next == f.start_index + PageSize IN
    IF next < f.max_results + 2 THEN [f EXCEPT !.start_index = next]
    ELSE [f EXCEPT !.pc = "returned"]

\* next value of range(1, max_results + 1, 10), or the end of the loop
NextStart(f) ==
    LET next == f.start_index + PageSize IN
    IF next < f.max_results + 1 THEN [f EXCEPT !.start_index = next]
    ELSE [f EXCEPT !.pc = "returned"]

\* the handler returning [] instead of what was accumulated
OnRequestExceptionDropsResults(f) == [f EXCEPT !.results = <<>>, !.pc = "returned"]

\* except requests.RequestException: print, then return results
OnRequestException(f) == [f EXCEPT !.pc = "returned"]

\* results.extend([...]), then the length test
ExtendResults(f, items) ==
    LET extended == f.results \o ParseItems(items) IN
    IF Len(extended) >= f.max_results
    THEN [f EXCEPT !.results = Truncate(extended, f.max_results), !.pc = "returned"]
    ELSE NextStart([f EXCEPT !.results = extended])

\* one pass of the for loop: the request of this pass and what follows it
SearchIteration(f, response) ==
    LET sent == [f EXCEPT !.requests = Append(@, [start |-> f.start_index, num |-> f.num]),
                          !.received = Append(@, response)] IN
    IF response.kind \in {"transport_error", "http_error"} THEN OnRequestException(sent)
    ELSE IF "items" \notin DOMAIN response.data THEN [sent EXCEPT !.pc = "returned"]
    ELSE ExtendResults(sent, response.data.items)

\* search() run to its return against the responses the provider gives in turn
RECURSIVE RunLoop(_, _)
RunLoop(f, responses) ==
    IF f.pc # "loop" \/ responses = <<>> THEN f
    ELSE RunLoop(SearchIteration(f, Head(responses)), Tail(responses))

\* number of values of range(1, max_results + 1, 10)
RangeLen(max_results) == (max_results + PageSize - 1) \div PageSize

-----------------------------------------------------------------------------
(* The search provider *)

UrlOk == "https://a.example/ok"
UrlDead == "https://b.example/dead"
UrlFtp == "ftp://x"

Item1 == [title |-> "Alpha", link |-> UrlOk, snippet |-> "first"]
Item2 == [title |-> "Beta", link |-> UrlDead, snippet |-> "second"]
Item3 == [title |-> "Gamma", snippet |-> "no link"]
Item4 == [link |-> UrlFtp]

LinkedPool == <<Item1, Item2>>
MixedPool == <<Item1, Item3, Item2, Item4>>

PageOf(n, pool) == [i \in 1..n |-> pool[((i - 1) % Len(pool)) + 1]]

PageLengths == {0, 1, PageSize - 1, PageSize, PageSize + 1}

Pages == {PageOf(n, pool) : n \in PageLengths, pool \in {LinkedPool, MixedPool}}

\* a response body without an "items" member
NoItems == [searchInformation |-> "0"]

OkResponse(data) == [kind |-> "ok", data |-> data]

Failures == {[kind |-> "transport_error"], [kind |-> "http_error"]}

Responses == Failures \cup {OkResponse(NoItems)} \cup {OkResponse([items |-> p]) : p \in Pages}

IsFailure(response) == response \in Failures

-----------------------------------------------------------------------------
(* search() as a process *)

otherThanSearch == <<extraction, web, nz_input, nz_output, nz_depth,
                     session, checked, contents, prompt_sources>>

SearchCall ==
    /\ search.pc \in {"idle", "returned"}
    /\ \E max_results \in 1..MaxResultsBound : search' = SearchBegin(max_results)
    /\ UNCHANGED otherThanSearch

SearchRequest ==
    /\ search.pc = "loop"
    /\ \E response \in Responses : search' = SearchIteration(search, response)
    /\ UNCHANGED otherThanSearch

-----------------------------------------------------------------------------
(* ContentExtractor.extract *)

UrlText == "not a url"
UrlEmpty == ""

Urls == {UrlOk, UrlDead, UrlFtp, UrlText, UrlEmpty}

\* the URLs validators.url() accepts
ValidUrls == {UrlOk, UrlDead}

IsValidUrl(url) == url \in ValidUrls

IdleExtraction == [url |-> "", result |-> <<>>, log |-> <<>>, raised |-> FALSE, pc |-> "idle"]

\* return <text>
Return(f, text) == [f EXCEPT !.result = text, !.pc = "returned"]

\* except Exception: print, return ""
OnException(f) == Return(f, <<>>)

\* extract() without the validator's test
ExtractBeginUnchecked(url) == [IdleExtraction EXCEPT !.url = url, !.pc = "stage1"]

\* entry of extract(): the validator's verdict
ExtractBegin(url) ==
    LET f == [IdleExtraction EXCEPT !.url = url] IN
    IF ~IsValidUrl(url) THEN Return(f, <<>>) ELSE [f EXCEPT !.pc = "stage1"]

\* a failed fetch returning "" at once instead of falling through to stage 2
Stage1NoFallbackOnFetchFailure(f, outcome) ==
    LET fetched == [f EXCEPT !.log = Append(@, "fetch_url")] IN
    IF outcome.kind \in {"raise", "fetch_none"} THEN Return(fetched, <<>>)
    ELSE IF outcome.kind = "content" /\ outcome.text # <<>>
         THEN Return(fetched, Strip(outcome.text))
         ELSE [fetched EXCEPT !.pc = "stage2"]

\* trafilatura.fetch_url, then trafilatura.extract on what was downloaded
Stage1(f, outcome) ==
    LET fetched == [f EXCEPT !.log = Append(@, "fetch_url")] IN
    IF outcome.kind = "raise" THEN OnException(fetched)
    ELSE IF outcome.kind = "content" /\ outcome.text # <<>>
         THEN Return(fetched, Strip(outcome.text))
         ELSE [fetched EXCEPT !.pc = "stage2"]

\* ' '.join([p.get_text().strip() for p in soup.find_all(['p', 'article'])])
ScrapeText(paragraphs) ==
    Join(Space, [i \in 1..Len(paragraphs) |-> Strip(paragraphs[i])])

\* requests.get, raise_for_status, BeautifulSoup and the tag scraping
Stage2(f, outcome) ==
    LET got == [f EXCEPT !.log = Append(@, "get")] IN
    IF outcome.kind = "raise" THEN OnException(got)
    ELSE Return(got, Strip(ScrapeText(outcome.paragraphs)))

\* extract(url) run to its return
RunExtract(url, hosts) ==
    LET f0 == ExtractBegin(url)
        f1 == IF f0.pc = "stage1" THEN Stage1(f0, hosts[url].s1) ELSE f0
    IN  IF f1.pc = "stage2" THEN Stage2(f1, hosts[url].s2) ELSE f1

-----------------------------------------------------------------------------
(* The web *)

Word(n) == <<Run("a", n)>>

Hello == Word(5)
HelloWorld == <<Run("a", 5), Run(" ", 1), Run("a", 5)>>
Padded == <<Run(" ", 2), Run("a", 5), Run("\n", 1), Run("a", 5), Run("\t", 1)>>
Blank == <<Run("\n", 2)>>
Long == Word(ContentLimit + 1)

ArticleTexts == {HelloWorld, Padded, Blank, Long}

ParagraphLists == {<<>>, <<HelloWorld>>, <<Padded, <<>>, Hello>>}

Stage1Outcomes ==
    {[kind |-> "fetch_none"], [kind |-> "no_content"], [kind |-> "raise"]}
    \cup {[kind |-> "content", text |-> t] : t \in ArticleTexts}

Stage2Outcomes ==
    {[kind |-> "raise"]} \cup {[kind |-> "html", paragraphs |-> ps] : ps \in ParagraphLists}

Behaviours == [s1 : Stage1Outcomes, s2 : Stage2Outcomes]

\* a host that answers nothing: the fetch fails and the GET times out
Unreachable == [s1 |-> [kind |-> "fetch_none"], s2 |-> [kind |-> "raise"]]

DeadWeb == [u \in Urls |-> Unreachable]

-----------------------------------------------------------------------------
(* extract() as a process *)

otherThanExtraction == <<search, nz_input, nz_output, nz_depth,
                         session, checked, contents, prompt_sources>>

HostChanges ==
    /\ extraction.pc \in {"idle", "returned"}
    /\ \E u \in ValidUrls, b \in Behaviours : web' = [web EXCEPT ![u] = b]
    /\ web' # web
    /\ extraction' = IdleExtraction
    /\ UNCHANGED otherThanExtraction

ExtractCall ==
    /\ extraction.pc \in {"idle", "returned"}
    /\ \E url \in Urls : extraction' = ExtractBegin(url)
    /\ UNCHANGED <<web>>
    /\ UNCHANGED otherThanExtraction

ExtractStage1 ==
    /\ extraction.pc = "stage1"
    /\ extraction' = Stage1(extraction, web[extraction.url].s1)
    /\ UNCHANGED <<web>>
    /\ UNCHANGED otherThanExtraction

ExtractStage2 ==
    /\ extraction.pc = "stage2"
    /\ extraction' = Stage2(extraction, web[extraction.url].s2)
    /\ UNCHANGED <<web>>
    /\ UNCHANGED otherThanExtraction

-----------------------------------------------------------------------------
(* clean_content as a process *)

otherThanNormalizer == <<search, extraction, web,
                         session, checked, contents, prompt_sources>>

\* clean_content on a fresh text
Normalize ==
    /\ nz_depth # 1
    /\ \E content \in Texts :
        /\ nz_input' = content
        /\ nz_output' = clean_content(content)
    /\ nz_depth' = 1
    /\ UNCHANGED otherThanNormalizer

\* clean_content on what it returned
Renormalize ==
    /\ nz_depth = 1
    /\ nz_input' = nz_output
    /\ nz_output' = clean_content(nz_output)
    /\ nz_depth' = 2
    /\ UNCHANGED otherThanNormalizer

-----------------------------------------------------------------------------
(* GeminiProcessor *)

\* the "Source i:" blocks _prepare_prompt joins, in order
PromptSources(texts) == [i \in 1..Len(texts) |-> [label |-> i, text |-> texts[i]]]

GeminiOutcomes == {[kind |-> "text", text |-> "# Report"], [kind |-> "empty"], [kind |-> "raise"]}

generate_report(query, texts, gemini) ==
    IF gemini.kind = "raise"
    THEN "Error: Unable to generate report due to an unexpected error."
    ELSE IF gemini.kind = "text" /\ gemini.text # "" THEN gemini.text
         ELSE "Error: Unable to generate report"

-----------------------------------------------------------------------------
(* app.py: one run of search_page per interaction *)

SliderMin == 5
SliderMax == 20

\* the slider positions tried: both ends of its range
SliderValues == {SliderMin, SliderMax}

Queries == {"", "solar"}

AppPages == {<<Item1, Item2>>, <<Item1>>}

AppResponses ==
    {[kind |-> "transport_error"], OkResponse(NoItems)}
    \cup {OkResponse([items |-> p]) : p \in AppPages}

\* the provider's answers to one search() call, one per request it can make
ResponseRuns == [1..RangeLen(SliderMax) -> AppResponses]

\* the hosts the application meets
AppBehaviours ==
    {[s1 |-> [kind |-> "content", text |-> Long], s2 |-> [kind |-> "raise"]],
     [s1 |-> [kind |-> "content", text |-> Padded], s2 |-> [kind |-> "raise"]],
     [s1 |-> [kind |-> "no_content"], s2 |-> [kind |-> "html", paragraphs |-> <<HelloWorld>>]]}

AppWebs == {[DeadWeb EXCEPT ![UrlOk] = b] : b \in AppBehaviours}

\* search_engine.search(query, max_results=max_results, time_filter=time_filter)
SearchResults(max_results, responses) == RunLoop(SearchBegin(max_results), responses).results

\* the URLs of the ticked results, in the order of the results
RECURSIVE SelectFrom(_, _, _)
SelectFrom(results, ticks, i) ==
    IF i > Len(results) THEN <<>>
    ELSE (IF i \in ticks THEN <<results[i].url>> ELSE <<>>) \o SelectFrom(results, ticks, i + 1)

\* if st.button("Search"): session_state.search_results = results
AfterSearch(sess, search_clicked, results) ==
    IF search_clicked THEN [sess EXCEPT !.search_results = results] ELSE sess

\* if session_state.search_results: the checkboxes, then selected_urls = selected
AfterSelection(sess, ticks) ==
    IF sess.search_results # <<>>
    THEN [sess EXCEPT !.selected_urls = SelectFrom(sess.search_results, ticks, 1)]
    ELSE sess

\* appending only the extractions that returned text
AppendContentSkippingEmpty(built, content) ==
    IF content = <<>> THEN built ELSE Append(built, content)

\* contents.append(content), once per URL
AppendContent(built, content) == Append(built, content)

\* for url in selected_urls: content = extractor.extract(url); contents.append(content)
RECURSIVE BuildContents(_, _, _)
BuildContents(urls, hosts, built) ==
    IF urls = <<>> THEN built
    ELSE BuildContents(Tail(urls), hosts,
                       AppendContent(built, RunExtract(Head(urls), hosts).result))

\* the condition of the "Generate Report" branch
Generating(generate_clicked, sess) == generate_clicked /\ sess.selected_urls # <<>>

ScriptRun(query, ticks, search_clicked, results, generate_clicked, gemini) ==
    LET typed == [session EXCEPT !.current_query = query]
        searched == AfterSearch(typed, search_clicked, results)
        selected == AfterSelection(searched, ticks)
        generating == Generating(generate_clicked, selected)
        built == IF generating THEN BuildContents(selected.selected_urls, web, <<>>) ELSE <<>>
        report == generate_report(query, built, gemini)
    IN  /\ session' = IF generating THEN [selected EXCEPT !.generated_report = report]
                      ELSE selected
        /\ checked' = ticks \cap (1..Len(selected.search_results))
        /\ contents' = built
        /\ prompt_sources' = PromptSources(built)
        /\ UNCHANGED <<search, extraction, web, nz_input, nz_output, nz_depth>>

NoGemini == [kind |-> "empty"]

\* the user edits the research topic
RerunTyping ==
    \E query \in Queries :
        /\ query # session.current_query
        /\ ScriptRun(query, checked, FALSE, <<>>, FALSE, NoGemini)

\* the user presses Search
RerunSearch ==
    \E max_results \in SliderValues, responses \in ResponseRuns :
        ScriptRun(session.current_query, checked, TRUE,
                  SearchResults(max_results, responses), FALSE, NoGemini)

\* the user ticks or unticks the checkbox of a listed result
RerunToggle ==
    \E idx \in 1..Len(session.search_results) :
        ScriptRun(session.current_query,
                  IF idx \in checked THEN checked \ {idx} ELSE checked \cup {idx},
                  FALSE, <<>>, FALSE, NoGemini)

\* the user presses Generate Report
RerunGenerate ==
    \E gemini \in GeminiOutcomes :
        ScriptRun(session.current_query, checked, FALSE, <<>>, TRUE, gemini)

-----------------------------------------------------------------------------
(* Initial values *)

NewSession ==
    [search_results |-> <<>>, selected_urls |-> <<>>,
     generated_report |-> "", current_query |-> ""]

InitSearchPart == search = IdleSearch

InitNormalizerPart == nz_input = <<>> /\ nz_output = <<>> /\ nz_depth = 0

InitExtractionPart == extraction = IdleExtraction

InitAppPart ==
    /\ session = NewSession
    /\ checked = {}
    /\ contents = <<>>
    /\ prompt_sources = <<>>

-----------------------------------------------------------------------------
(* Specification of search() against an arbitrary provider *)

InitSearch ==
    /\ InitSearchPart /\ InitNormalizerPart /\ InitExtractionPart /\ InitAppPart
    /\ web = DeadWeb

NextSearch == SearchCall \/ SearchRequest

SpecSearch == InitSearch /\ [][NextSearch]_vars

\* what the first k provider responses held, parsed, in order
RECURSIVE ParsedThrough(_, _)
ParsedThrough(received, k) ==
    IF k = 0 THEN <<>>
    ELSE ParsedThrough(received, k - 1) \o
         (IF ~IsFailure(received[k]) /\ "items" \in DOMAIN received[k].data
          THEN ParseItems(received[k].data.items) ELSE <<>>)

NoFailure(received) == \A i \in 1..Len(received) : ~IsFailure(received[i])

\* C1: every result search() returns has a non-empty url (an item without a
\* 'link' is left out, never returned with url "").
C1_ResultsHaveUrl ==
    search.pc = "returned" =>
        \A i \in 1..Len(search.results) : search.results[i].url # ""

\* C4: search() returns at most max_results results.
C4_AtMostMaxResults ==
    search.pc = "returned" => Len(search.results) <= search.max_results

\* C4 witness: a return where the last page overshot max_results and was cut.
C4_Witness ==
    /\ search.pc = "returned"
    /\ Len(search.requests) = 2
    /\ Len(ParsedThrough(search.received, Len(search.received))) > search.max_results
    /\ Len(search.results) = search.max_results

\* the i-th request is the one at which the loop is due to end
DueToStop(f, i) ==
    \/ Len(ParsedThrough(f.received, i)) >= f.max_results
    \/ "items" \notin DOMAIN f.received[i].data
    \/ i = RangeLen(f.max_results)

OffsetsInStep(f) ==
    \A i \in 1..Len(f.requests) :
        /\ f.requests[i].start = 1 + PageSize * (i - 1)
        /\ f.requests[i].num = PageSize

FullPages(received) ==
    \A i \in 1..Len(received) :
        /\ ~IsFailure(received[i])
        /\ "items" \in DOMAIN received[i].data
        /\ Len(received[i].data.items) = PageSize

\* C5 as stated: for max_results > 10 and no error, the requests go out at
\* offsets 1, 11, 21, ... and the loop ends only once max_results results are
\* collected or a response carries no further items.
C5_StopsOnlyWhenCollectedOrNoItems ==
    (search.pc = "returned" /\ search.max_results > PageSize /\ NoFailure(search.received)) =>
        LET n == Len(search.received) IN
        /\ OffsetsInStep(search)
        /\ n >= 1
        /\ \/ Len(search.results) = search.max_results
           \/ "items" \notin DOMAIN search.received[n].data
           \/ search.received[n].data.items = <<>>

\* C5 amended: for max_results > 10 and no error, the requests go out one
\* after another at offsets 1, 11, 21, ..., and the loop ends at the first
\* request after which max_results results are collected, or whose response has
\* no 'items' member, or which is request number ceil(max_results / 10);
\* max_results = 25 with full pages gives 3 requests (1, 11, 21) and 25 results.
C5_StopsAtFirstDueRequest ==
    (search.pc \in {"loop", "returned"} /\ search.max_results > PageSize
        /\ NoFailure(search.received)) =>
        LET n == Len(search.received) IN
        /\ OffsetsInStep(search)
        /\ Len(search.requests) = n
        /\ \A i \in 1..(n - 1) : ~DueToStop(search, i)
        /\ search.pc = "returned" => (n >= 1 /\ DueToStop(search, n))
        /\ (search.pc = "loop" /\ n >= 1) => ~DueToStop(search, n)
        /\ (search.pc = "returned" /\ search.max_results = 25 /\ FullPages(search.received)) =>
              /\ [i \in 1..n |-> search.requests[i].start] = <<1, 11, 21>>
              /\ Len(search.results) = 25

\* C5 witness: max_results = 25 answered with full pages, after the return.
C5_Witness ==
    /\ search.pc = "returned"
    /\ search.max_results = 25
    /\ FullPages(search.received)
    /\ Len(search.requests) = 3
    /\ Len(search.results) = 25

\* C6: an error on the k-th request ends the call: no further request, nothing
\* raised to the caller, and the results of requests 1..k-1 returned in order.
C6_ErrorReturnsAccumulated ==
    \A k \in 1..Len(search.received) :
        IsFailure(search.received[k]) =>
            /\ k = Len(search.received)
            /\ Len(search.requests) = k
            /\ search.pc = "returned"
            /\ ~search.raised
            /\ search.results = ParsedThrough(search.received, k - 1)

\* C6 witness: the third request fails after two pages were accumulated.
C6_Witness ==
    /\ search.pc = "returned"
    /\ Len(search.received) = 3
    /\ IsFailure(search.received[3])
    /\ Len(search.results) > PageSize

-----------------------------------------------------------------------------
(* Specification of clean_content over the texts of at most MaxRuns runs *)

InitNormalizer ==
    /\ InitSearchPart /\ InitNormalizerPart /\ InitExtractionPart /\ InitAppPart
    /\ web = DeadWeb

NextNormalizer == Normalize \/ Renormalize

SpecNormalizer == InitNormalizer /\ [][NextNormalizer]_vars

\* C2: clean_content is idempotent: applied to its own output it returns it
\* unchanged, for texts over the limit as for the others.
C2_CleanContentIdempotent == nz_depth = 2 => nz_output = nz_input

-----------------------------------------------------------------------------
(* Specification of extract() against a changing web *)

InitExtract ==
    /\ InitSearchPart /\ InitNormalizerPart /\ InitExtractionPart /\ InitAppPart
    /\ web = DeadWeb

NextExtract == HostChanges \/ ExtractCall \/ ExtractStage1 \/ ExtractStage2

SpecExtract == InitExtract /\ [][NextExtract]_vars

\* C8: for a URL the validator rejects, extract() returns "" and attempts no
\* network call, neither the stage-1 fetch nor the stage-2 GET.
C8_InvalidUrlNoNetwork ==
    (extraction.pc # "idle" /\ ~IsValidUrl(extraction.url)) =>
        /\ extraction.pc = "returned"
        /\ extraction.result = <<>>
        /\ extraction.log = <<>>
        /\ ~extraction.raised

\* C8 witness: extract() has returned for a URL the validator rejects.
C8_Witness ==
    /\ extraction.pc = "returned"
    /\ extraction.url = UrlFtp

Stage1Text(b) == IF b.s1.kind = "content" THEN b.s1.text ELSE <<>>

\* C9: for a valid URL, stage 2 runs exactly when stage 1 produced nothing:
\* non-empty stage-1 text is returned trimmed with no stage-2 request; a failed
\* fetch or an extractor without content is followed by exactly one GET; an
\* exception in either stage gives "" and is not propagated.
C9_FallbackIffStage1Empty ==
    (extraction.pc = "returned" /\ IsValidUrl(extraction.url)) =>
        LET b == web[extraction.url] IN
        /\ ~extraction.raised
        /\ b.s1.kind = "raise" => (extraction.result = <<>> /\ extraction.log = <<"fetch_url">>)
        /\ (b.s1.kind # "raise" /\ Stage1Text(b) # <<>>) =>
              /\ extraction.result = Strip(Stage1Text(b))
              /\ extraction.log = <<"fetch_url">>
        /\ (b.s1.kind # "raise" /\ Stage1Text(b) = <<>>) =>
              /\ extraction.log = <<"fetch_url", "get">>
              /\ b.s2.kind = "raise" => extraction.result = <<>>

\* C9 witness: stage 1 found no content and the fallback GET supplied the text.
C9_Witness ==
    /\ extraction.pc = "returned"
    /\ IsValidUrl(extraction.url)
    /\ web[extraction.url].s1.kind = "no_content"
    /\ extraction.log = <<"fetch_url", "get">>
    /\ extraction.result = HelloWorld

-----------------------------------------------------------------------------
(* Specification of the application: any sequence of reruns *)

Init ==
    /\ InitSearchPart /\ InitNormalizerPart /\ InitExtractionPart /\ InitAppPart
    /\ web \in AppWebs

Next == RerunTyping \/ RerunSearch \/ RerunToggle \/ RerunGenerate

Spec == Init /\ [][Next]_vars

ResultUrls == {session.search_results[i].url : i \in 1..Len(session.search_results)}

\* C3: every source text handed to the report generator went through the
\* extractor and then the normalizer, so it is normalized and at most 50,000
\* characters long whatever the extractor returned.
C3_SourcesNormalized ==
    \A i \in 1..Len(contents) :
        /\ i <= Len(session.selected_urls)
        /\ contents[i] = clean_content(RunExtract(session.selected_urls[i], web).result)
        /\ TextLen(contents[i]) <= ContentLimit

Fails(url) == ~IsValidUrl(url) \/ web[url] = Unreachable

\* C7: the corpus holds one entry per selected URL, in selection order, entry
\* i being the text of URL i; a failed or empty extraction is an empty entry
\* and neither ends the loop nor is skipped; the prompt labels them 1..n.
C7_OneEntryPerUrl ==
    contents # <<>> =>
        /\ Len(contents) = Len(session.selected_urls)
        /\ \A i \in 1..Len(session.selected_urls) :
              /\ contents[i] = RunExtract(session.selected_urls[i], web).result
              /\ Fails(session.selected_urls[i]) => contents[i] = <<>>
        /\ prompt_sources = [i \in 1..Len(contents) |-> [label |-> i, text |-> contents[i]]]

\* C7 witness: a corpus built from a selection with a repeated URL and a
\* failing one, whose entries are all in place.
C7_Witness ==
    /\ Len(contents) >= 3
    /\ \E i, j \in 1..Len(contents) :
          i < j /\ session.selected_urls[i] = session.selected_urls[j] /\ contents[i] # <<>>
    /\ \E i \in 1..Len(contents) : i < Len(contents) /\ contents[i] = <<>>

\* C10: every selected URL is the url of a current search result; after a
\* Search that returns nothing the selection is empty.
C10_SelectionWithinResults ==
    \A i \in 1..Len(session.selected_urls) : session.selected_urls[i] \in ResultUrls
====
